---- MODULE Spec2Model ----
(***************************************************************************)
(* A model of acconeer.exptool.structs.configbase: the parameter           *)
(* descriptors (validation, per-instance storage), Config (_loads, _dumps, *)
(* _reset, change notification) and ReferenceData.                         *)
(*                                                                         *)
(* Python values are records [t, n, s, l]: t is the type, n the number     *)
(* (an int's value, a float's value counted in quarters, a bool as 0/1),   *)
(* s a string's text or an enum member's name, l a list's elements.        *)
(***************************************************************************)
EXTENDS Integers, Sequences, FiniteSets, TLC

\* Bounds of the explored inputs.
MaxNum == 2
MaxDocLen == 2

(***************************************************************************)
(* Python values                                                           *)
(***************************************************************************)
Py(t, n, s, l) == [t |-> t, n |-> n, s |-> s, l |-> l]
PyNone == Py("None", 0, "", <<>>)
PyInt(k) == Py("int", k, "", <<>>)
PyBool(b) == Py("bool", IF b THEN 1 ELSE 0, "", <<>>)
\* a float with value q/4 (every such value is exact in binary)
PyFloat(q) == Py("float", q, "", <<>>)
PyNaN == Py("nan", 0, "", <<>>)
PyStr(s) == Py("str", 0, s, <<>>)
PyEnum(name) == Py("enum", 0, name, <<>>)
PyList(l) == Py("list", 0, "", l)
PyArray(l) == Py("ndarray", 0, "", l)

\* outcome of a call: a returned value or a raised exception
Ok(v) == [ok |-> TRUE, val |-> v, kind |-> "", msg |-> ""]
Raise(kind, msg) == [ok |-> FALSE, val |-> PyNone, kind |-> kind, msg |-> msg]

IsFloat(x) == x.t \in {"float", "nan"}
IsInt(x) == x.t \in {"int", "bool"}
\* the strings of the model that Python parses as a number
StrIsNumber(s) == s \in {"1"}
StrNumber(s) == 1

\* float.is_integer()
FloatIsInteger(x) == x.t = "float" /\ x.n % 4 = 0

\* int(value)
PyToInt(x) ==
    CASE IsInt(x) -> Ok(PyInt(x.n))
      [] x.t = "float" -> Ok(PyInt(x.n \div 4))
      [] x.t = "str" -> IF StrIsNumber(x.s) THEN Ok(PyInt(StrNumber(x.s)))
                        ELSE Raise("ValueError", "invalid literal for int()")
      [] OTHER -> Raise("TypeError", "int() argument must be a string or a number")

\* float(value)
PyToFloat(x) ==
    CASE IsInt(x) -> Ok(PyFloat(4 * x.n))
      [] IsFloat(x) -> Ok(x)
      [] x.t = "str" -> IF StrIsNumber(x.s) THEN Ok(PyFloat(4 * StrNumber(x.s)))
                        ELSE Raise("ValueError", "could not convert string to float")
      [] OTHER -> Raise("TypeError", "float() argument must be a string or a number")

\* round(value, decimals) of a float: a value with at most two decimals is kept by
\* decimals >= 2; decimals = 0 rounds to the nearest integer, a tie to the even one.
PyRound(x, decimals) ==
    IF x.t = "nan" \/ decimals >= 2 THEN x
    ELSE LET fl == x.n \div 4
             rem == x.n % 4
             k == CASE rem < 2 -> fl
                    [] rem > 2 -> fl + 1
                    [] OTHER -> IF fl % 2 = 0 THEN fl ELSE fl + 1
         IN PyFloat(4 * k)

\* a number in quarters, for comparisons between ints and floats
Quarters(x) == IF IsInt(x) THEN 4 * x.n ELSE x.n
\* a < b and a > b; every comparison with NaN is False
PyLess(a, b) == a.t # "nan" /\ b.t # "nan" /\ Quarters(a) < Quarters(b)
PyGreater(a, b) == PyLess(b, a)

(***************************************************************************)
(* The Config subclasses of the model and their declared parameters        *)
(***************************************************************************)
Classes == {"NumConfig", "RangeConfig", "SensorConfig", "ModeConfig", "RefConfig"}

\* class attribute VERSION
VERSION(c) == IF c = "RangeConfig" THEN PyNone ELSE PyInt(1)

\* dir(self) restricted to the Parameter attributes: alphabetical
DirParams(c) ==
    CASE c = "NumConfig" -> <<"f", "n">>
      [] c = "RangeConfig" -> <<"r">>
      [] c = "SensorConfig" -> <<"s">>
      [] c = "ModeConfig" -> <<"e", "m">>
      [] c = "RefConfig" -> <<"b", "ref">>

\* the members of the enum of EnumParameter e
EnumNames == {"A", "B"}

ParamDecl(kind, optional, default, lower, upper, order, dumps) ==
    [kind |-> kind, is_optional |-> optional, default_value |-> default,
     lower |-> lower, upper |-> upper, decimals |-> 0, order |-> order,
     does_dump |-> dumps]

\* the keyword arguments each parameter is declared with
Decl(p) ==
    CASE p = "n" -> ParamDecl("int", FALSE, PyInt(0), PyInt(0), PyInt(1), 10, TRUE)
      [] p = "f" -> ParamDecl("float", TRUE, PyNone, PyInt(0), PyNone, 20, TRUE)
      [] p = "r" -> ParamDecl("floatrange", FALSE, PyList(<<PyInt(0), PyInt(1)>>),
                              PyInt(0), PyInt(1), -1, TRUE)
      [] p = "s" -> ParamDecl("sensor", FALSE, PyList(<<PyInt(1)>>), PyNone, PyNone, -1, TRUE)
      [] p = "e" -> ParamDecl("enum", TRUE, PyEnum("A"), PyNone, PyNone, -1, TRUE)
      [] p = "b" -> ParamDecl("bool", FALSE, PyBool(FALSE), PyNone, PyNone, -1, TRUE)
      [] p = "m" -> ParamDecl("constant", FALSE, PyEnum("B"), PyNone, PyNone, -1, FALSE)
      [] p = "ref" -> ParamDecl("class", FALSE, PyNone, PyNone, PyNone, -1, FALSE)

AllParams == {"n", "f", "r", "s", "e", "b", "m", "ref"}
ValueKinds == {"int", "float", "floatrange", "sensor", "enum", "bool"}
IsValueParam(p) == Decl(p).kind \in ValueKinds
ValueParams == {p \in AllParams : IsValueParam(p)}

(***************************************************************************)
(* Validation: the _sanitize methods                                       *)
(***************************************************************************)
\* CheckLimits without its check of the upper limit
CheckLimitsNoUpper(d, value) ==
    IF d.lower.t # "None" /\ PyLess(value, d.lower)
    THEN Raise("ValueError", "Given value is too low")
    ELSE Ok(value)

\* the limits check at the end of IntParameter._sanitize and FloatParameter._sanitize
CheckLimits(d, value) ==
    IF d.lower.t # "None" /\ PyLess(value, d.lower)
    THEN Raise("ValueError", "Given value is too low")
    ELSE IF d.upper.t # "None" /\ PyGreater(value, d.upper)
    THEN Raise("ValueError", "Given value is too high")
    ELSE Ok(value)

\* IntParameter._sanitize after int(value) gave i
IntConverted(d, i) ==
    IF i.ok THEN CheckLimits(d, i.val)
    ELSE IF i.kind = "ValueError" THEN Raise("ValueError", "Not a valid integer")
    ELSE i

IntSanitize(d, value) ==
    IF IsFloat(value) /\ ~FloatIsInteger(value)
    THEN Raise("ValueError", "Not an integer")
    ELSE IntConverted(d, PyToInt(value))

\* FloatParameter._sanitize after float(value) gave x
FloatConverted(d, x) ==
    IF x.ok THEN CheckLimits(d, PyRound(x.val, d.decimals))
    ELSE IF x.kind = "ValueError" THEN Raise("ValueError", "Not a valid number")
    ELSE x

FloatSanitize(d, value) == FloatConverted(d, PyToFloat(value))

\* list(arg): the elements of a list or array, the characters of a string
ListOf(arg) ==
    CASE arg.t \in {"list", "ndarray"} -> Ok(PyList(arg.l))
      \* every string of the model has one character
      [] arg.t = "str" -> Ok(PyList(<<arg>>))
      [] OTHER -> Raise("TypeError", "object is not iterable")

\* FloatRangeParameter._sanitize after both values went through FloatParameter._sanitize
RangeOrdered(v1, v2) ==
    IF ~v1.ok THEN v1
    ELSE IF ~v2.ok THEN v2
    ELSE IF PyGreater(v1.val, v2.val) THEN Raise("ValueError", "Invalid range")
    ELSE Ok(PyArray(<<v1.val, v2.val>>))

\* FloatRangeParameter._sanitize after list(arg) gave values
RangeListed(d, values) ==
    IF ~values.ok THEN Raise("ValueError", "Not a valid range")
    ELSE IF Len(values.val.l) # 2
    THEN Raise("ValueError", "Given range does not have two values")
    ELSE RangeOrdered(FloatSanitize(d, values.val.l[1]), FloatSanitize(d, values.val.l[2]))

FloatRangeSanitize(d, arg) == RangeListed(d, ListOf(arg))

SensorSanitize(arg) ==
    IF IsInt(arg) THEN Ok(PyList(<<arg>>))
    ELSE IF arg.t = "list" /\ \A i \in 1..Len(arg.l) : IsInt(arg.l[i]) THEN Ok(arg)
    ELSE Raise("ValueError", "sensor(s) must be an int or a list of ints")

\* bool(value)
BoolSanitize(value) ==
    IF value.t = "ndarray" /\ Len(value.l) > 1
    THEN Raise("ValueError", "The truth value of an array is ambiguous")
    ELSE Ok(PyBool(CASE value.t \in {"int", "bool", "float"} -> value.n # 0
                     [] value.t = "None" -> FALSE
                     [] value.t = "str" -> value.s # ""
                     [] value.t \in {"list", "ndarray"} -> value.l # <<>>
                     [] OTHER -> TRUE))

\* the _sanitize of the parameter's class
TypeSanitize(d, value) ==
    CASE d.kind = "int" -> IntSanitize(d, value)
      [] d.kind = "float" -> FloatSanitize(d, value)
      [] d.kind = "floatrange" -> FloatRangeSanitize(d, value)
      [] d.kind = "sensor" -> SensorSanitize(value)
      [] d.kind = "bool" -> BoolSanitize(value)
      [] OTHER -> Ok(value)

\* ValueParameter.sanitize
Sanitize(d, value) ==
    IF ~(d.is_optional /\ value.t = "None") THEN TypeSanitize(d, value)
    ELSE Ok(value)

\* the default value as ValueParameter.__init__ stores it
SanitizedDefault(d) == Sanitize(d, d.default_value).val
DefaultValue(p) == SanitizedDefault(Decl(p))

(***************************************************************************)
(* State                                                                   *)
(***************************************************************************)
VARIABLES
    cls,        \* the Config subclass the program instantiates
    objs,       \* the instances of it the program has created
    values,     \* ValueParameter.values of each descriptor: instance -> value
    instances,  \* ClassParameter.instances of ref: instance -> ReferenceData
    handlers,   \* Config._event_handlers of each instance
    op,         \* the last operation: its name, instance and parameter
    err,        \* how the last operation ended: Ok or the exception raised
    calls,      \* the event handler invocations of the last operation, in order
    updated,    \* whether the last operation ran Config._update_pidgets
    loaded,     \* the values read from the instance a round trip loaded into
    pc,         \* power_bins.main: the statement it is at
    args,       \* power_bins.main: the parsed command line
    client,     \* power_bins.main: the class of the client it created
    port,       \* power_bins.main: the serial port of a UARTClient
    sensor_config, \* power_bins.main: the class of the sensor config it created
    sensor,     \* power_bins.main: what it assigned to sensor_config.sensor
    trace,      \* power_bins.main: its calls on the client and the plot process, in order
    exc         \* power_bins.main: the exception that ended it, if one did

configVars == <<cls, objs, values, instances, handlers, op, err, calls, updated, loaded>>
mainVars == <<pc, args, client, port, sensor_config, sensor, trace, exc>>
vars == <<configVars, mainVars>>

AllObjs == {"c1", "c2"}
Handlers == {"h1", "h2"}

\* Config._get_keys_and_params: dir() sorted by order (sorted() is stable)
RECURSIVE InsertByOrder(_, _)
InsertByOrder(sorted, p) ==
    IF sorted = <<>> THEN <<p>>
    ELSE LET last == sorted[Len(sorted)]
         IN IF Decl(last).order <= Decl(p).order THEN Append(sorted, p)
            ELSE Append(InsertByOrder(SubSeq(sorted, 1, Len(sorted) - 1), p), last)

RECURSIVE SortByOrder(_)
SortByOrder(keys) ==
    IF keys = <<>> THEN <<>>
    ELSE InsertByOrder(SortByOrder(SubSeq(keys, 1, Len(keys) - 1)), keys[Len(keys)])

GetKeysAndParams(c) == SortByOrder(DirParams(c))
Range(seq) == {seq[i] : i \in 1..Len(seq)}
ParamsOf(c) == Range(DirParams(c))

\* WeakKeyDictionary operations
EmptyDict == [o \in {} |-> PyNone]
Put(dict, key, value) ==
    [o \in DOMAIN dict \cup {key} |-> IF o = key THEN value ELSE dict[o]]
Pop(dict, key) == [o \in DOMAIN dict \ {key} |-> dict[o]]

\* ValueParameter.__get__ on the values vals
GetIn(vals, o, p) == IF o \in DOMAIN vals[p] THEN vals[p][o] ELSE DefaultValue(p)
Get(o, p) == GetIn(values, o, p)
\* the values read from every ValueParameter of instance o
ReadAll(vals, o) == [p \in ParamsOf(cls) \cap ValueParams |-> GetIn(vals, o, p)]

\* ReferenceData.__init__
NewReferenceData ==
    [buffered_data |-> "None", loaded_data |-> "None", use |-> TRUE,
     source |-> "None", source_file |-> "None", error |-> "None"]

\* what an event handler called with the instance o can read from it
View(vals, insts, o) ==
    [get |-> ReadAll(vals, o),
     has_ref |-> o \in DOMAIN insts,
     ref |-> IF o \in DOMAIN insts THEN insts[o] ELSE NewReferenceData]

\* the orders in which a set can be iterated
Orders(set) ==
    {ord \in [1..Cardinality(set) -> set] : \A h \in set : \E i \in DOMAIN ord : ord[i] = h}

\* a notification that stops after the first handler
FirstHandlerOnly(vals, insts, o, ord) ==
    [i \in 1..(IF Len(ord) > 0 THEN 1 ELSE 0) |->
        [handler |-> ord[i], obj |-> o, view |-> View(vals, insts, o)]]

\* Config._parameter_event_handler: the invocations it makes, iterating in order ord
ParameterEventHandler(vals, insts, o, ord) ==
    [i \in 1..Len(ord) |-> [handler |-> ord[i], obj |-> o, view |-> View(vals, insts, o)]]

NoOp == [name |-> "init", obj |-> "", param |-> ""]
Op(name, o, p) == [name |-> name, obj |-> o, param |-> p]
NotLoaded == <<>>

\* power_bins.main has not been called
MainNotStarted ==
    /\ pc = "parse_args"
    /\ args = [socket_addr |-> "None", spi |-> FALSE, serial_port |-> "None", sensors |-> <<>>]
    /\ client = "None"
    /\ port = "None"
    /\ sensor_config = "None"
    /\ sensor = <<>>
    /\ trace = <<>>
    /\ exc = Ok(PyNone)

InitState ==
    /\ MainNotStarted
    /\ values = [p \in ValueParams |-> EmptyDict]
    /\ instances = [o \in {} |-> NewReferenceData]
    /\ handlers = [o \in AllObjs |-> {}]
    /\ op = NoOp
    /\ err = Ok(PyNone)
    /\ calls = <<>>
    /\ updated = FALSE
    /\ loaded = NotLoaded

\* one instance of any of the classes
Init ==
    /\ cls \in Classes
    /\ objs = {"c1"}
    /\ InitState

\* the inputs of the model
Scalars ==
    {PyNone, PyNaN, PyBool(TRUE), PyStr("1"), PyStr("x"), PyEnum("A"), PyEnum("B")}
    \cup {PyInt(k) : k \in -1..MaxNum}
    \cup {PyFloat(q) : q \in {-3, 1, 2, 3}}
    \cup {PyFloat(4 * k + 2) : k \in 1..(MaxNum - 1)}
Lists ==
    {PyList(<<>>), PyList(<<PyInt(1)>>), PyList(<<PyStr("x")>>),
     PyList(<<PyInt(0), PyInt(1), PyInt(1)>>), PyList(<<PyFloat(1), PyFloat(3)>>),
     PyList(<<PyInt(1), PyInt(0)>>), PyList(<<PyInt(1), PyStr("x")>>),
     PyList(<<PyInt(1), PyNaN>>)}
    \cup {PyList(<<PyInt(0), PyInt(k)>>) : k \in 0..MaxNum}
Inputs == Scalars \cup Lists
\* the values a widget sends
PidgetInputs ==
    {PyNone, PyInt(-1), PyInt(1), PyFloat(3), PyFloat(6), PyEnum("B"), PyBool(TRUE),
     PyList(<<PyInt(0), PyInt(1)>>), PyList(<<PyInt(1), PyInt(0)>>)}

\* what an operation that notifies nobody and loads nothing leaves behind
Quiet ==
    /\ calls' = <<>>
    /\ updated' = FALSE
    /\ loaded' = NotLoaded

\* _event_handlers.add(h), done by the code that owns the handler
Register(o, h) ==
    /\ h \notin handlers[o]
    /\ handlers' = [handlers EXCEPT ![o] = @ \cup {h}]
    /\ op' = Op("register", o, "")
    /\ err' = Ok(PyNone)
    /\ Quiet
    /\ UNCHANGED <<cls, objs, values, instances>>

\* the outcome of an operation on the descriptors: the state afterwards and the result
Outcome(vals, insts, res) == [vals |-> vals, insts |-> insts, res |-> res]

\* a __set__ that keeps one value per descriptor, for every instance
StoreShared(vals, insts, o, p, v) ==
    IF v.ok THEN Outcome([vals EXCEPT ![p] = [x \in AllObjs |-> v.val]], insts, Ok(PyNone))
    ELSE Outcome(vals, insts, v)

\* ValueParameter.__set__ after sanitize gave v
Store(vals, insts, o, p, v) ==
    IF v.ok THEN Outcome([vals EXCEPT ![p] = Put(@, o, v.val)], insts, Ok(PyNone))
    ELSE Outcome(vals, insts, v)

\* the descriptor's __set__
DescriptorSet(vals, insts, o, p, value) ==
    IF IsValueParam(p) THEN Store(vals, insts, o, p, Sanitize(Decl(p), value))
    ELSE Outcome(vals, insts, Raise("AttributeError", "Unsettable parameter"))

\* the descriptor's __delete__
DescriptorDelete(vals, insts, o, p) ==
    CASE IsValueParam(p) -> Outcome([vals EXCEPT ![p] = Pop(@, o)], insts, Ok(PyNone))
      [] Decl(p).kind = "class" -> Outcome(vals, Pop(insts, o), Ok(PyNone))
      \* ConstantParameter defines no __delete__
      [] OTHER -> Outcome(vals, insts, Raise("AttributeError", "__delete__"))

\* the operation named name on instance o and parameter p ended as r, having made the
\* handler invocations c
Done(name, o, p, r, c) ==
    /\ values' = r.vals
    /\ instances' = r.insts
    /\ err' = r.res
    /\ op' = Op(name, o, p)
    /\ calls' = c
    /\ UNCHANGED <<cls, objs, handlers>>

\* obj.p = value
SetAttr(o, p, value) ==
    /\ Done("set", o, p, DescriptorSet(values, instances, o, p, value), <<>>)
    /\ updated' = FALSE
    /\ loaded' = NotLoaded

\* del obj.p
DelAttr(o, p) ==
    /\ Done("delete", o, p, DescriptorDelete(values, instances, o, p), <<>>)
    /\ updated' = FALSE
    /\ loaded' = NotLoaded

\* the call of obj._parameter_event_handler() that ends an operation which got to r,
\* unless r is an exception
ThenNotify(name, o, p, r) ==
    IF r.res.ok
    THEN \E ord \in Orders(handlers[o]) :
            Done(name, o, p, r, ParameterEventHandler(r.vals, r.insts, o, ord))
    ELSE Done(name, o, p, r, <<>>)

\* Parameter.pidget_event_handler(obj, val), called by the parameter's widget
PidgetEventHandler(o, p, val) ==
    /\ updated' = FALSE
    /\ loaded' = NotLoaded
    /\ IF IsValueParam(p)
       THEN \E r \in {DescriptorSet(values, instances, o, p, val)} : ThenNotify("pidget", o, p, r)
       ELSE Done("pidget", o, p, Outcome(values, instances, Ok(PyNone)), <<>>)

\* the loop of Config._reset after the parameter at index i gave r
RECURSIVE ResetFrom(_, _, _, _, _)
ResetNext(r, o, params, i) ==
    IF r.res.ok THEN ResetFrom(r.vals, r.insts, o, params, i + 1)
    ELSE r

ResetFrom(vals, insts, o, params, i) ==
    IF i > Len(params) THEN Outcome(vals, insts, Ok(PyNone))
    ELSE ResetNext(DescriptorDelete(vals, insts, o, params[i]), o, params, i)

\* obj._reset()
Reset(o) ==
    /\ updated' = FALSE
    /\ loaded' = NotLoaded
    /\ \E r \in {ResetFrom(values, instances, o, GetKeysAndParams(cls), 1)} :
          ThenNotify("reset", o, "", r)

(***************************************************************************)
(* JSON: json.dumps and json.loads over the values of the model            *)
(***************************************************************************)
Json(t, n, str, l) == [t |-> t, n |-> n, s |-> str, l |-> l]
JNull == Json("null", 0, "", <<>>)
JInt(k) == Json("integer", k, "", <<>>)
JReal(q) == Json("real", q, "", <<>>)
JNaN == Json("NaN", 0, "", <<>>)
JStr(str) == Json("string", 0, str, <<>>)
JArr(l) == Json("array", 0, "", l)

\* json.dumps of a scalar: Ok(JSON value), or TypeError for a type it cannot serialize
ScalarToJson(x) ==
    CASE x.t = "None" -> Ok(JNull)
      [] x.t = "bool" -> Ok(Json("boolean", x.n, "", <<>>))
      [] x.t = "int" -> Ok(JInt(x.n))
      [] x.t = "float" -> Ok(JReal(x.n))
      [] x.t = "nan" -> Ok(JNaN)
      [] x.t = "str" -> Ok(JStr(x.s))
      [] OTHER -> Raise("TypeError", "Object is not JSON serializable")

ToJson(x) ==
    IF x.t = "list"
    THEN IF \A i \in 1..Len(x.l) : ScalarToJson(x.l[i]).ok
         THEN Ok(JArr([i \in 1..Len(x.l) |-> ScalarToJson(x.l[i]).val]))
         ELSE Raise("TypeError", "Object is not JSON serializable")
    ELSE ScalarToJson(x)

\* json.loads of a scalar
ScalarFromJson(j) ==
    CASE j.t = "null" -> PyNone
      [] j.t = "boolean" -> PyBool(j.n = 1)
      [] j.t = "integer" -> PyInt(j.n)
      [] j.t = "real" -> PyFloat(j.n)
      [] j.t = "NaN" -> PyNaN
      [] OTHER -> PyStr(j.s)

FromJson(j) ==
    IF j.t = "array" THEN PyList([i \in 1..Len(j.l) |-> ScalarFromJson(j.l[i])])
    ELSE ScalarFromJson(j)

\* a == b on values: numbers compare by value, NaN equals nothing
PyEq(a, b) ==
    CASE a.t = "nan" \/ b.t = "nan" -> FALSE
      [] a.t \in {"int", "bool", "float"} /\ b.t \in {"int", "bool", "float"} ->
           Quarters(a) = Quarters(b)
      [] OTHER -> a = b

(***************************************************************************)
(* Config._dumps and Config._loads                                         *)
(***************************************************************************)
Entry(k, v) == [k |-> k, v |-> v]

\* the parameter's dump(obj), value being what __get__ returns
DumpValue(d, value) ==
    CASE d.kind = "enum" ->
           IF value.t = "enum" THEN Ok(PyStr(value.s))
           ELSE Raise("AttributeError", "object has no attribute 'name'")
      [] d.kind = "floatrange" -> ListOf(value)
      [] d.kind \in ValueKinds -> Ok(value)
      \* Parameter.dump(self) takes no instance
      [] OTHER -> Raise("TypeError", "dump() takes 1 positional argument")

ParamDump(vals, o, p) == DumpValue(Decl(p), GetIn(vals, o, p))

\* json.dumps of what a parameter's dump returned
DumpedToJson(d) == IF d.ok THEN ToJson(d.val) ELSE d

\* the JSON entries of the dumping parameters from index i on, j being that of index i
RECURSIVE DumpFrom(_, _, _, _, _)
DumpNext(j, vals, o, params, i, doc) ==
    IF j.ok THEN DumpFrom(vals, o, params, i + 1, Append(doc, Entry(params[i], j.val)))
    ELSE j

DumpFrom(vals, o, params, i, doc) ==
    IF i > Len(params) THEN Ok(doc)
    ELSE IF ~Decl(params[i]).does_dump THEN DumpFrom(vals, o, params, i + 1, doc)
    ELSE DumpNext(DumpedToJson(ParamDump(vals, o, params[i])), vals, o, params, i, doc)

\* d["VERSION"] = self.VERSION
WithVersion(d, version) ==
    IF d.ok /\ version.t # "None" THEN Ok(Append(d.val, Entry("VERSION", ToJson(version).val)))
    ELSE d

\* Config._dumps: Ok(the document, a sequence of entries) or the exception
Dumps(vals, o) ==
    WithVersion(DumpFrom(vals, o, GetKeysAndParams(cls), 1, <<>>), VERSION(cls))

\* EnumParameter.load
EnumLoad(vals, insts, o, p, value) ==
    IF value.t = "str" /\ value.s \in EnumNames
    THEN DescriptorSet(vals, insts, o, p, PyEnum(value.s))
    ELSE IF value.t = "list" THEN Outcome(vals, insts, Raise("TypeError", "unhashable type"))
    ELSE Outcome(vals, insts, Raise("KeyError", "enum member"))

\* the parameter's load(obj, value)
ParamLoad(vals, insts, o, p, value) ==
    CASE Decl(p).kind = "enum" -> EnumLoad(vals, insts, o, p, value)
      [] IsValueParam(p) /\ Decl(p).kind # "enum" -> DescriptorSet(vals, insts, o, p, value)
      \* Parameter.load(self) takes no instance and no value
      [] OTHER -> Outcome(vals, insts, Raise("TypeError", "load() takes 1 positional argument"))

\* d.pop("VERSION", None)
HasVersion(doc) == \E i \in 1..Len(doc) : doc[i].k = "VERSION"
DocVersion(doc) ==
    IF HasVersion(doc)
    THEN FromJson(doc[CHOOSE i \in 1..Len(doc) : doc[i].k = "VERSION"].v)
    ELSE PyNone
IsItem(e) == e.k # "VERSION"
\* the items iterated last to first
DocItemsReversed(doc) ==
    [i \in 1..Len(SelectSeq(doc, IsItem)) |->
        SelectSeq(doc, IsItem)[Len(SelectSeq(doc, IsItem)) + 1 - i]]

DocItems(doc) == SelectSeq(doc, IsItem)

\* the loop of Config._loads over the items from index i on; failed is the index of
\* the item that raised (0: none)
LoadOutcome(r, failed) == [vals |-> r.vals, insts |-> r.insts, res |-> r.res, failed |-> failed]

RECURSIVE LoadFrom(_, _, _, _, _)
LoadNext(r, o, items, i) ==
    IF r.res.ok THEN LoadFrom(r.vals, r.insts, o, items, i + 1)
    ELSE LoadOutcome(r, i)

LoadFrom(vals, insts, o, items, i) ==
    IF i > Len(items) THEN LoadOutcome(Outcome(vals, insts, Ok(PyNone)), 0)
    ELSE IF items[i].k \notin ParamsOf(cls)
    THEN LoadOutcome(Outcome(vals, insts, Raise("KeyError", items[i].k)), i)
    ELSE LoadNext(ParamLoad(vals, insts, o, items[i].k, FromJson(items[i].v)), o, items, i)

\* a version check that lets a document without VERSION pass
VersionMismatchIfPresent(version, expected) ==
    version.t # "None" /\ (expected.t = "None" \/ ~PyEq(version, expected))

\* version != self.VERSION
VersionMismatch(version, expected) ==
    IF version.t = "None" \/ expected.t = "None" THEN version.t # expected.t
    ELSE ~PyEq(version, expected)

\* Config._loads up to its call of _update_pidgets
LoadsResult(vals, insts, o, doc) ==
    IF VersionMismatch(DocVersion(doc), VERSION(cls))
    THEN LoadOutcome(Outcome(vals, insts,
                             Raise("ValueError", "Configuration version mismatch")), 0)
    ELSE LoadFrom(vals, insts, o, DocItems(doc), 1)

\* obj._loads(s), s the text of the JSON document doc
Loads(o, doc) ==
    \E r \in {LoadsResult(values, instances, o, doc)} :
        /\ Done("loads", o, "", r, <<>>)
        /\ updated' = r.res.ok
        /\ loaded' = NotLoaded

\* d._loads(s) of a new instance d, which is dropped afterwards and with it its
\* entries in the WeakKeyDictionaries
LoadFresh(o, doc) ==
    \E r \in {LoadsResult(values, instances, "fresh", doc)} :
        /\ Done("dumps_loads", o, "", Outcome(values, instances, r.res), <<>>)
        /\ updated' = r.res.ok
        /\ loaded' = IF r.res.ok THEN ReadAll(r.vals, "fresh") ELSE NotLoaded

\* d = type(obj)(); d._loads(obj._dumps())
DumpsLoads(o) ==
    \E doc \in {Dumps(values, o)} :
        IF doc.ok THEN LoadFresh(o, doc.val)
        ELSE /\ Done("dumps_loads", o, "", Outcome(values, instances, doc), <<>>)
             /\ updated' = FALSE
             /\ loaded' = NotLoaded

\* the JSON documents given to _loads
JsonInputs(k) ==
    CASE k = "VERSION" -> {JInt(1), JInt(2)}
      [] k = "n" -> {JInt(1), JInt(MaxNum)}
      [] k = "f" -> {JReal(6), JNull, JStr("x")}
      [] k = "r" -> {JArr(<<JInt(0), JReal(3)>>), JArr(<<JInt(1), JInt(0)>>)}
      [] k = "s" -> {JInt(2), JStr("x")}
      [] k = "e" -> {JStr("B"), JNull}
      [] k = "b" -> {Json("boolean", 1, "", <<>>)}
      [] OTHER -> {JInt(1)}
DocKeys == ParamsOf(cls) \cup {"VERSION", "undeclared"}
DocEntries == UNION {{Entry(k, v) : v \in JsonInputs(k)} : k \in DocKeys}
Docs ==
    UNION {{doc \in [1..n -> DocEntries] :
               \A i, j \in 1..n : i # j => doc[i].k # doc[j].k} : n \in 0..MaxDocLen}

(***************************************************************************)
(* ReferenceData, the per-instance object of ReferenceDataParameter ref    *)
(***************************************************************************)
\* ClassParameter.__get__: the instances afterwards
ClassGet(insts, o) ==
    IF o \notin DOMAIN insts
    THEN [x \in DOMAIN insts \cup {o} |-> IF x = o THEN NewReferenceData ELSE insts[x]]
    ELSE insts

Assign(field, value) == [field |-> field, value |-> value]

\* a property setter of ReferenceData: the assignment
RefAssigned(insts, o, a) == [insts EXCEPT ![o] = [@ EXCEPT ![a.field] = a.value]]

\* the property assignments of a method body from index i on, each followed by
\* __notify; sofar are the handler invocations made before
RECURSIVE RefAssignFrom(_, _, _, _, _, _, _)
\* a setter that does not notify
RefSilent(vals, insts, o, assigns, i, ord, sofar) ==
    RefAssignFrom(vals, insts, o, assigns, i + 1, ord, sofar)

RefNotified(vals, insts, o, assigns, i, ord, sofar) ==
    RefAssignFrom(vals, insts, o, assigns, i + 1, ord,
                  sofar \o ParameterEventHandler(vals, insts, o, ord))

RefAssignFrom(vals, insts, o, assigns, i, ord, sofar) ==
    IF i > Len(assigns) THEN [insts |-> insts, calls |-> sofar]
    ELSE RefNotified(vals, RefAssigned(insts, o, assigns[i]), o, assigns, i, ord, sofar)

\* a method of obj.ref that makes the assignments assigns
RefMethod(name, o, assigns) ==
    /\ "ref" \in ParamsOf(cls)
    /\ \E ord \in Orders(handlers[o]) :
          \E r \in {RefAssignFrom(values, ClassGet(instances, o), o, assigns, 1, ord, <<>>)} :
             Done(name, o, "ref", Outcome(values, r.insts, Ok(PyNone)), r.calls)
    /\ updated' = FALSE
    /\ loaded' = NotLoaded

\* obj.ref.buffered_data = data, as the processing code does
SetBufferedData(o, data) == RefMethod("buffered_data", o, <<Assign("buffered_data", data)>>)
\* obj.ref.use = flag
SetUse(o, flag) == RefMethod("use", o, <<Assign("use", flag)>>)
\* obj.ref.error = text
SetError(o, text) == RefMethod("error", o, <<Assign("error", text)>>)

LoadBufferedBody(ref) ==
    <<Assign("loaded_data", ref.buffered_data), Assign("use", TRUE),
      Assign("source", "buffer"), Assign("source_file", "None")>>
\* obj.ref.load_buffered()
LoadBuffered(o) == RefMethod("load_buffered", o, LoadBufferedBody(ClassGet(instances, o)[o]))

UnloadBody ==
    <<Assign("loaded_data", "None"), Assign("source", "None"),
      Assign("source_file", "None"), Assign("error", "None")>>
\* obj.ref.unload()
Unload(o) == RefMethod("unload", o, UnloadBody)

LoadFromFileBody ==
    <<Assign("loaded_data", "FileData"), Assign("use", TRUE),
      Assign("source", "file"), Assign("source_file", "bg.npy")>>
\* obj.ref.load_from_file(filename) of a file np.load can read
LoadFromFile(o) == RefMethod("load_from_file", o, LoadFromFileBody)

Next ==
    \/ \E o \in objs, h \in Handlers : Register(o, h) /\ UNCHANGED mainVars
    \/ \E o \in objs, p \in ParamsOf(cls), v \in Inputs : SetAttr(o, p, v) /\ UNCHANGED mainVars
    \/ \E o \in objs, p \in ParamsOf(cls) : DelAttr(o, p) /\ UNCHANGED mainVars
    \/ \E o \in objs, p \in ParamsOf(cls), v \in PidgetInputs : PidgetEventHandler(o, p, v) /\ UNCHANGED mainVars
    \/ \E o \in objs : Reset(o) /\ UNCHANGED mainVars
    \/ \E o \in objs, doc \in Docs : Loads(o, doc) /\ UNCHANGED mainVars
    \/ \E o \in objs : DumpsLoads(o) /\ UNCHANGED mainVars
    \/ \E o \in objs, data \in {"None", "Data"} : SetBufferedData(o, data) /\ UNCHANGED mainVars
    \/ \E o \in objs, flag \in BOOLEAN : SetUse(o, flag) /\ UNCHANGED mainVars
    \/ \E o \in objs : SetError(o, "Error") /\ UNCHANGED mainVars
    \/ \E o \in objs : LoadBuffered(o) /\ UNCHANGED mainVars
    \/ \E o \in objs : Unload(o) /\ UNCHANGED mainVars
    \/ \E o \in objs : LoadFromFile(o) /\ UNCHANGED mainVars

Spec == Init /\ [][Next]_vars

(***************************************************************************)
(* The serialization operations alone, for the claims about _loads         *)
(***************************************************************************)
NextLoads ==
    \/ \E o \in objs, p \in ParamsOf(cls), v \in Inputs : SetAttr(o, p, v) /\ UNCHANGED mainVars
    \/ \E o \in objs, doc \in Docs : Loads(o, doc) /\ UNCHANGED mainVars
    \/ \E o \in objs : DumpsLoads(o) /\ UNCHANGED mainVars

SpecLoads == Init /\ [][NextLoads]_vars

(***************************************************************************)
(* Two instances of one class, for the claims about per-instance storage   *)
(***************************************************************************)
InitTwoInstances ==
    /\ cls = "NumConfig"
    /\ objs = {"c1", "c2"}
    /\ InitState

NextTwoInstances ==
    \/ \E o \in objs, p \in ParamsOf(cls), v \in Inputs : SetAttr(o, p, v) /\ UNCHANGED mainVars
    \/ \E o \in objs, p \in ParamsOf(cls) : DelAttr(o, p) /\ UNCHANGED mainVars
    \/ \E o \in objs, p \in ParamsOf(cls), v \in PidgetInputs : PidgetEventHandler(o, p, v) /\ UNCHANGED mainVars
    \/ \E o \in objs : Reset(o) /\ UNCHANGED mainVars
    \/ \E o \in objs, doc \in Docs : Loads(o, doc) /\ UNCHANGED mainVars

SpecTwoInstances == InitTwoInstances /\ [][NextTwoInstances]_vars

(***************************************************************************)
(* gui/service_modules/power_bins.py: main, one action per statement       *)
(***************************************************************************)
\* the command lines ExampleArgumentParser(num_sens=1) can parse
SensorLists ==
    {<<k>> : k \in 1..MaxNum} \cup {<<1, k>> : k \in 2..MaxNum}
ArgSets ==
    [socket_addr : {"None", "host"}, spi : BOOLEAN, serial_port : {"None", "tty"},
     sensors : SensorLists]

\* a step of main that touches no object but its own variable pc and those listed
Goto(next) == pc' = next /\ UNCHANGED configVars

\* args = utils.ExampleArgumentParser(num_sens=1).parse_args(); utils.config_logging(args)
ParseArgs(parsed) ==
    /\ pc = "parse_args"
    /\ args' = parsed
    /\ Goto("select_client")
    /\ UNCHANGED <<client, port, sensor_config, sensor, trace, exc>>

\* if args.socket_addr: ... elif args.spi: ... else: port = ...; client = UARTClient(port)
SelectClient ==
    /\ pc = "select_client"
    /\ client' = IF args.socket_addr # "None" THEN "SocketClient"
                 ELSE IF args.spi THEN "SPIClient"
                 ELSE "UARTClient"
    /\ port' = IF args.socket_addr # "None" \/ args.spi THEN port
               ELSE IF args.serial_port # "None" THEN args.serial_port
               ELSE "autodetected"
    /\ Goto("get_sensor_config")
    /\ UNCHANGED <<args, sensor_config, sensor, trace, exc>>

\* sensor_config = get_sensor_config()
GetSensorConfig ==
    /\ pc = "get_sensor_config"
    /\ sensor_config' = "PowerBinServiceConfig"
    /\ Goto("set_sensor")
    /\ UNCHANGED <<args, client, port, sensor, trace, exc>>

\* sensor_config.sensor = args.sensors
SetSensor ==
    /\ pc = "set_sensor"
    /\ sensor' = args.sensors
    /\ Goto("setup_session")
    /\ UNCHANGED <<args, client, port, sensor_config, trace, exc>>

\* client.setup_session(sensor_config)
SetupSession ==
    /\ pc = "setup_session"
    /\ trace' = Append(trace, "client.setup_session")
    /\ Goto("new_updater")
    /\ UNCHANGED <<args, client, port, sensor_config, sensor, exc>>

\* the parameters of PGUpdater.__init__ after self; none has a default
PGUpdaterInitParams == <<"sensor_config", "processing_config", "session_info">>
\* the arguments of the call PGUpdater(sensor_config, None)
PGUpdaterCallArgs == <<"sensor_config", "None">>
\* the binding of positional arguments to required parameters at a call
BindArgs(params, given) ==
    IF Len(given) < Len(params)
    THEN Raise("TypeError", "__init__() missing required positional argument")
    ELSE IF Len(given) > Len(params)
    THEN Raise("TypeError", "__init__() takes fewer positional arguments")
    ELSE Ok(PyNone)

\* pg_updater = PGUpdater(sensor_config, None): an exception of the call ends main,
\* which has no try around it
NewPGUpdater ==
    /\ pc = "new_updater"
    /\ exc' = BindArgs(PGUpdaterInitParams, PGUpdaterCallArgs)
    /\ Goto(IF BindArgs(PGUpdaterInitParams, PGUpdaterCallArgs).ok
            THEN "new_process" ELSE "raised")
    /\ UNCHANGED <<args, client, port, sensor_config, sensor, trace>>

\* main, up to the statement that ends every run of it
NextMain ==
    \/ \E parsed \in ArgSets : ParseArgs(parsed)
    \/ SelectClient
    \/ GetSensorConfig
    \/ SetSensor
    \/ SetupSession
    \/ NewPGUpdater

InitMain ==
    /\ cls = "SensorConfig"
    /\ objs = {}
    /\ InitState

SpecMain == InitMain /\ [][NextMain]_vars

(***************************************************************************)
(* Claims                                                                  *)
(***************************************************************************)
IsNumber(v) == v.t \in {"int", "bool", "float"}
\* the number, in quarters, that a parameter declared d compares with its limits
Compared(d, v) == IF d.kind = "int" THEN Quarters(v) ELSE PyRound(PyFloat(Quarters(v)), d.decimals).n
BelowLower(d, v) == IsNumber(v) /\ d.lower.t # "None" /\ Compared(d, v) < Quarters(d.lower)
AboveUpper(d, v) == IsNumber(v) /\ d.upper.t # "None" /\ Compared(d, v) > Quarters(d.upper)

\* C1: setting an IntParameter or FloatParameter to a number that is (for a float,
\* after rounding to decimals) below its lower or above its upper limit raises a
\* ValueError and leaves the value read from the parameter as it was.
C1_OutOfRangeSetRaises ==
    [][\A o \in objs, p \in ParamsOf(cls) :
          (op'.name = "set" /\ op'.obj = o /\ op'.param = p
           /\ Decl(p).kind \in {"int", "float"})
          => \A v \in {x \in Inputs : BelowLower(Decl(p), x) \/ AboveUpper(Decl(p), x)} :
                SetAttr(o, p, v)
                => (~err'.ok /\ err'.kind = "ValueError" /\ Get(o, p)' = Get(o, p))]_vars

\* a set of a number above the upper limit, or below the lower limit, was rejected
C1_Witness ==
    /\ op.name = "set"
    /\ op.param \in {"n", "f"}
    /\ ~err.ok
    /\ err.msg \in {"Given value is too high", "Given value is too low"}
    /\ op.obj \in DOMAIN values[op.param]

CheckedKinds == {"int", "float", "floatrange", "sensor"}

\* C2: whatever an IntParameter, FloatParameter, FloatRangeParameter or
\* SensorParameter rejects on set, it rejects with a ValueError.
C2_RejectsWithValueError ==
    (op.name = "set" /\ op.param \in AllParams /\ ~err.ok)
    => (Decl(op.param).kind \in CheckedKinds => err.kind = "ValueError")

\* C3, as claimed: the error of a version mismatch is of another kind than the
\* ValueError that an invalid or out-of-range parameter value raises.
C3_MismatchIsAnotherKind ==
    (op.name = "loads" /\ ~err.ok /\ err.msg = "Configuration version mismatch")
    => err.kind # "ValueError"

\* the VERSION entry of the document (absent counts as None) differs from the class's
C3_VersionDiffers(doc) ==
    IF \E i \in 1..Len(doc) : doc[i].k = "VERSION"
    THEN \A i \in 1..Len(doc) :
            doc[i].k = "VERSION" => ~(VERSION(cls).t = "int" /\ doc[i].v = JInt(VERSION(cls).n))
    ELSE VERSION(cls).t # "None"

\* C3, amended: _loads of a document whose VERSION differs from the class's raises a
\* ValueError, the kind a rejected parameter value raises too; what tells it apart
\* is its message, which no rejected set carries.
C3_MismatchIsValueError ==
    [][\A o \in objs :
          /\ (op'.name = "loads" /\ op'.obj = o)
             => \A doc \in {d \in Docs : C3_VersionDiffers(d)} :
                   Loads(o, doc)
                   => (~err'.ok /\ err'.kind = "ValueError"
                       /\ err'.msg = "Configuration version mismatch")
          /\ (op'.name = "set" /\ ~err'.ok)
             => err'.msg # "Configuration version mismatch"]_vars

\* a _loads ended with the version mismatch
C3_Witness ==
    /\ op.name = "loads"
    /\ err.kind = "ValueError"
    /\ err.msg = "Configuration version mismatch"

DumpingParams == {p \in ParamsOf(cls) : Decl(p).does_dump}
DumpedKeys(doc) == {doc[i].k : i \in 1..Len(doc)}
\* every EnumParameter of the instance holds a member of its enum, or None if optional
EnumsHoldMembers(o) ==
    \A p \in ParamsOf(cls) :
        Decl(p).kind = "enum"
        => \/ Get(o, p).t = "enum" /\ Get(o, p).s \in EnumNames
           \/ Get(o, p).t = "None" /\ Decl(p).is_optional

\* C4: _dumps of a config reached by successful sets succeeds, its keys are the
\* dumping parameters plus VERSION (when not None), and _loads of it into a new
\* instance succeeds and leaves every dumping parameter reading what it reads on
\* the dumped config.
C4_RoundTrip ==
    (op.name = "dumps_loads" /\ EnumsHoldMembers(op.obj))
    => /\ err.ok
       /\ Dumps(values, op.obj).ok
       /\ DumpedKeys(Dumps(values, op.obj).val)
             = DumpingParams \cup (IF VERSION(cls).t = "None" THEN {} ELSE {"VERSION"})
       /\ \A p \in DumpingParams : loaded[p] = Get(op.obj, p)

Count(log, h) == Cardinality({i \in DOMAIN log : log[i].handler = h})
\* the log holds one invocation of every handler of the instance and nothing else
EachOnce(log, o) ==
    /\ Len(log) = Cardinality(handlers[o])
    /\ \A h \in handlers[o] : Count(log, h) = 1
    /\ \A i \in DOMAIN log : log[i].obj = o

\* C5: pidget_event_handler(obj, val) with a valid val stores the sanitized value and
\* then calls every registered handler once with obj, each seeing the new value;
\* with an invalid val it raises, stores nothing and calls no handler.
C5_PidgetEventNotifies ==
    [][\A o \in objs, p \in ParamsOf(cls) \cap ValueParams :
          (op'.name = "pidget" /\ op'.obj = o /\ op'.param = p)
          => \A val \in PidgetInputs :
                PidgetEventHandler(o, p, val)
                => IF Sanitize(Decl(p), val).ok
                   THEN /\ err'.ok
                        /\ Get(o, p)' = Sanitize(Decl(p), val).val
                        /\ EachOnce(calls', o)
                        /\ \A i \in DOMAIN calls' :
                              calls'[i].view.get[p] = Sanitize(Decl(p), val).val
                   ELSE /\ ~err'.ok
                        /\ Get(o, p)' = Get(o, p)
                        /\ calls' = <<>>]_vars

\* a widget event changed a value and both handlers saw the new one
C5_Witness ==
    /\ op.name = "pidget"
    /\ err.ok
    /\ Len(calls) = 2
    /\ op.param = "n"
    /\ calls[1].view.get["n"] = PyInt(1)
    /\ calls[2].view.get["n"] = PyInt(1)

WithinLimits(d, v) ==
    /\ IsNumber(v)
    /\ d.lower.t = "None" \/ Quarters(v) >= Quarters(d.lower)
    /\ d.upper.t = "None" \/ Quarters(v) <= Quarters(d.upper)

\* C6: in every state the value read from an IntParameter or FloatParameter with
\* limits is None (only if optional) or within the limits, and the value read from a
\* FloatRangeParameter has two elements, both within the limits, first <= second.
C6_RangeInvariant ==
    \A o \in objs, p \in ParamsOf(cls) :
        /\ Decl(p).kind \in {"int", "float"}
           => \/ Get(o, p).t = "None" /\ Decl(p).is_optional
              \/ WithinLimits(Decl(p), Get(o, p))
        /\ Decl(p).kind = "floatrange"
           => /\ Len(Get(o, p).l) = 2
              /\ WithinLimits(Decl(p), Get(o, p).l[1])
              /\ WithinLimits(Decl(p), Get(o, p).l[2])
              /\ Quarters(Get(o, p).l[1]) <= Quarters(Get(o, p).l[2])

\* the items of a document in its key order
C7_Items(doc) == SelectSeq(doc, IsItem)
\* the value a parameter reads after its load of the JSON value j
C7_Loaded(p, j) ==
    IF Decl(p).kind = "enum" THEN PyEnum(FromJson(j).s)
    ELSE Sanitize(Decl(p), FromJson(j)).val
\* the load of the item raises
C7_ItemFails(e) ==
    \/ e.k \notin ParamsOf(cls)
    \/ ~IsValueParam(e.k)
    \/ Decl(e.k).kind = "enum" /\ ~(FromJson(e.v).t = "str" /\ FromJson(e.v).s \in EnumNames)
    \/ Decl(e.k).kind # "enum" /\ ~Sanitize(Decl(e.k), FromJson(e.v)).ok
\* the keys of the items that precede the first failing one
C7_Preceding(doc) ==
    IF C3_VersionDiffers(doc) THEN {}
    ELSE {C7_Items(doc)[i].k : i \in {j \in 1..Len(C7_Items(doc)) :
                                        \A k \in 1..j : ~C7_ItemFails(C7_Items(doc)[k])}}
C7_Changed(o) == {p \in ParamsOf(cls) \cap ValueParams : Get(o, p)' # Get(o, p)}

C8_ResetRestores ==
    op.name = "reset"
    => /\ err.ok
       /\ \A p \in ParamsOf(cls) \cap ValueParams : Get(op.obj, p) = DefaultValue(p)
       /\ op.obj \notin DOMAIN instances
       /\ EachOnce(calls, op.obj)
       /\ \A i \in DOMAIN calls :
             /\ ~calls[i].view.has_ref
             /\ \A p \in ParamsOf(cls) \cap ValueParams :
                   calls[i].view.get[p] = DefaultValue(p)

\* C9: every instance starts reading the defaults, and an operation on one instance
\* leaves what every other instance reads from every ValueParameter as it was.
C9_Isolation ==
    /\ \A o \in objs, p \in ParamsOf(cls) \cap ValueParams : Get(o, p) = DefaultValue(p)
    /\ [][\A o \in objs : op'.obj # o => ReadAll(values, o)' = ReadAll(values, o)]_vars

\* one instance holds a value it was set to while the other, never set, reads the default
C9_Witness ==
    /\ objs = {"c1", "c2"}
    /\ op.name \in {"set", "loads"}
    /\ op.obj = "c1"
    /\ err.ok
    /\ Get("c1", "n") = PyInt(1)
    /\ "c2" \notin DOMAIN values["n"]
    /\ Get("c2", "n") = PyInt(0)

FourTimes(log, o) ==
    /\ Len(log) = 4 * Cardinality(handlers[o])
    /\ \A h \in handlers[o] : Count(log, h) = 4
\* the invocations of the first notification of a method
FirstRound(log, o) == {i \in DOMAIN log : i <= Cardinality(handlers[o])}

\* C10: load_buffered and unload call every handler four times, once per property
\* assignment; the calls of the first assignment of load_buffered see loaded_data
\* replaced while source and source_file are what they were; afterwards the fields
\* are as the method's assignments leave them.
C10_ReferenceDataNotifies ==
    [][\A o \in objs :
          /\ (op'.name = "load_buffered" /\ op'.obj = o)
             => /\ FourTimes(calls', o)
                /\ \A i \in FirstRound(calls', o) :
                      /\ calls'[i].view.ref.loaded_data = ClassGet(instances, o)[o].buffered_data
                      /\ calls'[i].view.ref.source = ClassGet(instances, o)[o].source
                      /\ calls'[i].view.ref.source_file = ClassGet(instances, o)[o].source_file
                /\ instances'[o].loaded_data = instances'[o].buffered_data
                /\ instances'[o].buffered_data = ClassGet(instances, o)[o].buffered_data
                /\ instances'[o].use = TRUE
                /\ instances'[o].source = "buffer"
                /\ instances'[o].source_file = "None"
          /\ (op'.name = "unload" /\ op'.obj = o)
             => /\ FourTimes(calls', o)
                /\ instances'[o].loaded_data = "None"
                /\ instances'[o].source = "None"
                /\ instances'[o].source_file = "None"
                /\ instances'[o].error = "None"
                /\ instances'[o].use = ClassGet(instances, o)[o].use
                /\ instances'[o].buffered_data = ClassGet(instances, o)[o].buffered_data]_vars

\* load_buffered ran with two handlers registered, after a load from a file: its first
\* calls saw the buffered data loaded and the source still "file"
C10_Witness ==
    /\ op.name = "load_buffered"
    /\ Len(calls) = 8
    /\ calls[1].view.ref.loaded_data = "Data"
    /\ calls[1].view.ref.source = "file"
    /\ calls[1].view.ref.source_file = "bg.npy"
    /\ instances[op.obj].source = "buffer"

MainEnded == pc \in {"returned", "raised"}
Called(name) == \E i \in DOMAIN trace : trace[i] = name
TimesCalled(name) == Cardinality({i \in DOMAIN trace : trace[i] = name})

\* C11: a run of main that has called client.setup_session starts the plot process
\* and the session and, when it ends, has called pg_process.close() and after it
\* client.disconnect(), each exactly once, with no put_data after the close.
C11_ShutdownOrdering ==
    (MainEnded /\ Called("client.setup_session"))
    => /\ Called("pg_process.start")
       /\ Called("client.start_session")
       /\ TimesCalled("pg_process.close") = 1
       /\ TimesCalled("client.disconnect") = 1
       /\ \A i, j \in DOMAIN trace :
             /\ (trace[i] = "pg_process.close" /\ trace[j] = "client.disconnect") => i < j
             /\ (trace[i] = "pg_process.close" /\ trace[j] = "pg_process.put_data") => j < i

====
